---- MODULE Spec2Model ----
(***************************************************************************)
(* A model of the tile addressing and caching engine of sift:              *)
(*   - MercatorTileCalc  (src/py/cspov/tests/gltiles.py), the tile math;   *)
(*   - FlatFileTileSet   (src/py/cspov/tests/gltiles.py), the lazy store   *)
(*     of GL textures keyed by tile index;                                 *)
(*   - SIFTMainMapWidget (src/sift/view/MapWidget.py), which paints the    *)
(*     layers on every frame and re-renders them from a deferred timer.    *)
(*                                                                         *)
(* World coordinates, resolutions and zero points are floats in the        *)
(* source.  The model draws them from integers and computes every quotient *)
(* exactly: a pixel coordinate (V.b - E.b)/Z.dy is kept as its numerator   *)
(* V.b - E.b over the denominator Z.dy, and np.floor / np.ceil of a        *)
(* quotient are computed on numerator and denominator.                     *)
(***************************************************************************)
EXTENDS Integers, Sequences, FiniteSets, TLC

VARIABLES
    calc,         \* the MercatorTileCalc object under test, or NoCalc
    ctor,         \* the last constructor call: its arguments and what it raised
    vt,           \* the last visible_tiles call: its arguments and its result
    store,      \* the FlatFileTileSet object (its _calc, its data.shape), or NoStore
    active,       \* FlatFileTileSet._active: tile index (y, x) -> texture name
    gl_textures,  \* the texture names in use in the GL context
    op,           \* the last call made on the tile set, and what it gave
    pc,           \* where the tile set's running method stands
    deferred_render_layers,  \* SIFTMainMapWidget._deferred_render_layers
    deferred_render_timer,   \* SIFTMainMapWidget._deferred_render_timer
    qt_timers,    \* the single-shot timers outstanding in the event loop: ticks left, oldest first
    since_dirty,  \* ticks since the last frame that queued a layer, up to SingleShotTicks
    ev,           \* the last handler the widget ran, and what it did
    viewport,     \* SIFTMainMapWidget.viewport: the world box on show
    queued_geom,  \* the geometry of the last frame that queued a layer, or NoCall
    activity_stack,  \* SIFTMainMapWidget._activity_stack, bottom first
    dispatch      \* the mouse event being delivered and the loop iterations so far, or idle

calc_vars == <<calc, ctor, vt>>
store_vars == <<store, active, gl_textures, op, pc>>
sched_vars == <<deferred_render_layers, deferred_render_timer, qt_timers, since_dirty>>
mouse_vars == <<activity_stack, dispatch>>
widget_vars == <<deferred_render_layers, deferred_render_timer, qt_timers, since_dirty, ev,
                 viewport, queued_geom, activity_stack, dispatch>>
vars == <<calc, ctor, vt, store, active, gl_textures, op, pc,
          deferred_render_layers, deferred_render_timer, qt_timers, since_dirty, ev,
          viewport, queued_geom, activity_stack, dispatch>>

---------------------------------------------------------------------------
(* Program constants *)

DEFAULT_TILE_HEIGHT == 256
DEFAULT_TILE_WIDTH == 512

WELLSAMPLED == 0

---------------------------------------------------------------------------
(* Bounds of the model *)

\* world coordinates of a visible box run over -MaxBelow..MaxWorld, and over
\* the tile edges of the (512, 1024) raster
MaxBelow == 2
MaxWorld == 6
\* extra tiles asked for around an edge
MaxMargin == 1
\* tile indices asked of the tile set run over 0..MaxTileIndex on both axes
MaxTileIndex == 1
\* texture names the GL context hands out: 1..MaxTex
MaxTex == 2
\* single-shot timers outstanding at once: at most MaxTimers
MaxTimers == 3
\* the interval of QTimer.singleShot(250, ...), in ticks of the model's clock
SingleShotTicks == 2
\* the viewport's edges stay within -MaxExcursion .. MaxExcursion
MaxExcursion == 6
\* mouse positions run over 0..MaxMouse on both axes
MaxMouse == 1
\* turns of the delivery loop followed for one mouse event: at most MaxTurns
MaxTurns == 5

---------------------------------------------------------------------------
(* Value types *)

box(b, l, t, r) == [b |-> b, l |-> l, t |-> t, r |-> r]
rez(dy, dx) == [dy |-> dy, dx |-> dx]

NoCalc == [kind |-> "NoCalc"]
NoCall == [kind |-> "NoCall"]
NoStore == [kind |-> "NoStore"]

\* Python values a tile set method returns
PyNone == [type |-> "NoneType"]
PyInt(n) == [type |-> "int", v |-> n]
PyBool(b) == [type |-> "bool", v |-> b]

\* activity objects: the class, and the attributes lx, ly of a pan
Unset == [type |-> "unset"]
Idling == [cls |-> "Idling"]
UserPanningMap == [cls |-> "UserPanningMap", lx |-> Unset, ly |-> Unset]
UserZoomingMap == [cls |-> "UserZoomingMap"]
UserZoomingRegion == [cls |-> "UserZoomingRegion"]

\* what an activity answers to an event: None, False, or a new activity
AnswerNone == [ans |-> "None"]
AnswerFalse == [ans |-> "False"]
AnswerActivity(a) == [ans |-> "activity", act |-> a]

\* the canvas size (w, h) in pixels, and float(h)/float(w)
SIZE == <<4, 4>>
aspect(size) == size[2] \div size[1]
\* rad = MAX_EXCURSION_X/2, half the width of the first viewport
rad == 4

---------------------------------------------------------------------------
(* MercatorTileCalc *)

\* np.floor(num/den) and np.ceil(num/den) of an exact quotient, den > 0
floor(num, den) == num \div den

\* a slip: the tiles needed counted as floor + 1 instead of ceil
ceil_as_floor_plus_one(num, den) == (num \div den) + 1

ceil(num, den) == -((-num) \div den)

\* assert(pixel_rez.dy > 0.0); assert(pixel_rez.dx > 0.0)
rez_asserts(pixel_rez) == pixel_rez.dy > 0 /\ pixel_rez.dx > 0

\* a slip: only the height is checked against the tile shape
shape_asserts_height_only(h, w, tile_shape) == h % tile_shape[1] = 0

\* assert(h % tile_shape[0]==0); assert(w % tile_shape[1]==0)
shape_asserts(h, w, tile_shape) ==
    /\ h % tile_shape[1] = 0
    /\ w % tile_shape[2] = 0

\* a slip: each axis divided by the tile's extent along the other axis
tiles_avail_swapped_axes(h, w, tile_shape) ==
    <<h \div tile_shape[2], w \div tile_shape[1]>>

\* self.tiles_avail = (h/tile_shape[0], w/tile_shape[1])
tiles_avail(h, w, tile_shape) == <<h \div tile_shape[1], w \div tile_shape[2]>>

\* self.extents_box, from pxbelow, pxabove, pxleft, pxright
extents_box(h, w, zero_point, pixel_rez) ==
    LET zy == zero_point[1]
        zx == zero_point[2]
        pxbelow == -zy
        pxabove == h - zy
        pxright == w - zx
        pxleft == -zx
    IN  box(pxbelow * pixel_rez.dy, pxleft * pixel_rez.dx,
            pxabove * pixel_rez.dy, pxright * pixel_rez.dx)

\* MercatorTileCalc.__init__: the object built, or the exception raised
MercatorTileCalc(pixel_shape, zero_point, pixel_rez, tile_shape) ==
    LET h == pixel_shape[1]
        w == pixel_shape[2]
    IN  IF ~rez_asserts(pixel_rez)
        THEN [exc |-> "AssertionError", self |-> NoCalc]
        ELSE IF ~shape_asserts(h, w, tile_shape)
        THEN [exc |-> "AssertionError", self |-> NoCalc]
        ELSE [exc |-> "none",
              self |-> [kind |-> "MercatorTileCalc",
                        pixel_shape |-> pixel_shape,
                        zero_point |-> zero_point,
                        pixel_rez |-> pixel_rez,
                        tile_shape |-> tile_shape,
                        extents_box |-> extents_box(h, w, zero_point, pixel_rez),
                        tiles_avail |-> tiles_avail(h, w, tile_shape)]]

\* the extras added around the edges: (tiy0, tix0, nth, ntw) after
\* "now add the extras"
add_extras(tiy0, tix0, nth, ntw, X) ==
    LET y0 == IF X.b > 0 THEN tiy0 - X.b ELSE tiy0
        n1 == IF X.b > 0 THEN nth + X.b ELSE nth
        x0 == IF X.l > 0 THEN tix0 - X.l ELSE tix0
        m1 == IF X.l > 0 THEN ntw + X.l ELSE ntw
        n2 == IF X.t > 0 THEN n1 + X.t ELSE n1
        m2 == IF X.r > 0 THEN m1 + X.r ELSE m1
    IN  [tiy0 |-> y0, tix0 |-> x0, nth |-> n2, ntw |-> m2]

\* "truncate to the available tiles"
truncate(a, avail) ==
    LET ntw1 == IF a.tix0 < 0 THEN a.ntw + a.tix0 ELSE a.ntw
        tix0 == IF a.tix0 < 0 THEN 0 ELSE a.tix0
        nth1 == IF a.tiy0 < 0 THEN a.nth + a.tiy0 ELSE a.nth
        tiy0 == IF a.tiy0 < 0 THEN 0 ELSE a.tiy0
        ath == avail[1]
        atw == avail[2]
        xth == ath - (tiy0 + nth1)
        nth == IF xth < 0 THEN nth1 + xth ELSE nth1
        xtw == atw - (tix0 + ntw1)
        ntw == IF xtw < 0 THEN ntw1 + xtw ELSE ntw1
    IN  [tiy0 |-> tiy0, tix0 |-> tix0, nth |-> nth, ntw |-> ntw]

\* the pixel view box pv, as numerators over Z.dy (b, t) and Z.dx (l, r)
pixel_view(C, V) ==
    LET E == C.extents_box
    IN  box(V.b - E.b, V.l - E.l, V.t - E.b, V.r - E.l)

\* MercatorTileCalc.visible_tiles: (sampling-state, box of tiles to draw)
visible_tiles(C, V, X) ==
    LET Z == C.pixel_rez
        pv == pixel_view(C, V)
        th == C.tile_shape[1]
        tw == C.tile_shape[2]
        nth == ceil(pv.t - pv.b, Z.dy * th)
        ntw == ceil(pv.r - pv.l, Z.dx * tw)
        tiy0 == floor(pv.b, Z.dy * th)
        tix0 == floor(pv.l, Z.dx * tw)
        a == truncate(add_extras(tiy0, tix0, nth, ntw, X), C.tiles_avail)
        overunder == WELLSAMPLED
        tileset == box(a.tiy0, a.tix0, a.tiy0 + a.nth, a.tix0 + a.ntw)
    IN  <<overunder, tileset>>

\* MercatorTileCalc.tile_pixels: the bounds of the slice
\* data[tiy*th:(tiy+1)*th, tix*tw:(tix+1)*tw]
tile_pixels(C, tiy, tix) ==
    LET th == C.tile_shape[1]
        tw == C.tile_shape[2]
    IN  [ys |-> tiy * th, ye |-> (tiy + 1) * th, xs |-> tix * tw, xe |-> (tix + 1) * tw]

---------------------------------------------------------------------------
(* Inputs *)

PixelShapes == {<<4, 6>>, <<2, 6>>, <<3, 6>>, <<4, 4>>, <<512, 1024>>}
TileShapes == {<<2, 3>>, <<DEFAULT_TILE_HEIGHT, DEFAULT_TILE_WIDTH>>}
ZeroPoints == {<<0, 0>>, <<1, 1>>, <<1, 2>>}
PixelRezs == {rez(1, 1), rez(2, 1), rez(0, 1), rez(1, -1)}

\* the tile set reads no resolution after construction: one valid, one invalid
StorePixelRezs == {rez(1, 1), rez(0, 1)}

WorldYs == (-MaxBelow .. MaxWorld) \cup {256, 512}
WorldXs == (-MaxBelow .. MaxWorld) \cup {512, 1024}

\* boxes with top >= bottom and right >= left
WorldBoxes ==
    {box(b, l, t, r) : <<b, t>> \in {p \in WorldYs \X WorldYs : p[1] <= p[2]},
                       <<l, r>> \in {p \in WorldXs \X WorldXs : p[1] <= p[2]}}

\* a box of non-negative tile counts, one per edge
Margins == [b : {0, MaxMargin}, l : {0, MaxMargin}, t : {0, MaxMargin}, r : {0, MaxMargin}]
ZeroMargin == box(0, 0, 0, 0)

---------------------------------------------------------------------------
(* Actions of the calculator *)

Init ==
    /\ calc = NoCalc
    /\ ctor = NoCall
    /\ vt = NoCall
    /\ store = NoStore
    /\ active = <<>>
    /\ gl_textures = {}
    /\ op = NoCall
    /\ pc = [at |-> "idle"]
    /\ deferred_render_layers = <<>>
    /\ deferred_render_timer = PyNone
    /\ qt_timers = <<>>
    /\ since_dirty = SingleShotTicks
    /\ ev = [name |-> "__init__"]
    /\ viewport = box(-rad * aspect(SIZE), -rad, rad * aspect(SIZE), rad)
    /\ queued_geom = NoCall
    /\ activity_stack = <<Idling>>
    /\ dispatch = [at |-> "idle"]

\* calc = MercatorTileCalc(name, pixel_shape, zero_point, pixel_rez, tile_shape)
Construct ==
    /\ calc = NoCalc
    /\ \E ps \in PixelShapes, zp \in ZeroPoints, pr \in PixelRezs, ts \in TileShapes :
        LET r == MercatorTileCalc(ps, zp, pr, ts)
        IN  /\ calc' = r.self
            /\ ctor' = [kind |-> "call", pixel_shape |-> ps, zero_point |-> zp,
                        pixel_rez |-> pr, tile_shape |-> ts, exc |-> r.exc]
    /\ UNCHANGED <<vt, store_vars, widget_vars>>

\* calc.visible_tiles(V, X)
VisibleTiles ==
    /\ calc # NoCalc
    /\ vt = NoCall
    /\ \E V \in WorldBoxes, X \in Margins :
        vt' = [kind |-> "call", V |-> V, X |-> X, ret |-> visible_tiles(calc, V, X)]
    /\ UNCHANGED <<calc, ctor, store_vars, widget_vars>>

\* the caller drops the result of the last call
Discard ==
    /\ vt # NoCall
    /\ vt' = NoCall
    /\ UNCHANGED <<calc, ctor, store_vars, widget_vars>>

Next == Construct \/ VisibleTiles \/ Discard

Spec == Init /\ [][Next]_vars

---------------------------------------------------------------------------
(* FlatFileTileSet *)

\* dict operations on _active
dict_set(d, k, v) == [x \in (DOMAIN d) \cup {k} |-> IF x = k THEN v ELSE d[x]]
dict_del(d, k) == [x \in (DOMAIN d) \ {k} |-> d[x]]

\* activate's "offset within the array": the slice bounds ys:ye, xs:xe
activate_slice(C, tile_yx) ==
    LET tile_y == tile_yx[1]
        tile_x == tile_yx[2]
        th == C.tile_shape[1]
        tw == C.tile_shape[2]
        ys == (tile_y * th) * C.zero_point[1]
        xs == (tile_x * tw) * C.zero_point[2]
    IN  [ys |-> ys, ye |-> ys + th, xs |-> xs, xe |-> xs + tw]

\* assert(xe<=self.data.shape[1]); assert(ye<=self.data.shape[0])
activate_asserts(S, w) == w.xe <= S.shape[2] /\ w.ye <= S.shape[1]

\* FlatFileTileSet.activate, texid being the name glGenTextures(1) gave:
\* the exception raised, what the method returns, _active and the GL names
\* in use afterwards.  glBindTexture and the upload (the argument-less
\* glTexSubImage2D() placeholder) change no state of the model.
activate(S, act, gl, tile_yx, texid) ==
    IF ~activate_asserts(S, activate_slice(S.calc, tile_yx))
    THEN [exc |-> "AssertionError", ret |-> PyNone,
          active |-> act, gl_textures |-> gl \cup {texid}]
    ELSE [exc |-> "none", ret |-> PyNone,
          active |-> dict_set(act, tile_yx, texid), gl_textures |-> gl \cup {texid}]

\* FlatFileTileSet.__getitem__
getitem(S, act, gl, tileyx, texid) ==
    IF tileyx \in DOMAIN act
    THEN [exc |-> "none", ret |-> PyInt(act[tileyx]), active |-> act, gl_textures |-> gl]
    ELSE activate(S, act, gl, tileyx, texid)

\* a slip: the entry is looked up but never deleted
deactivate_keeps_entry(act, k) ==
    IF k \notin DOMAIN act
    THEN [exc |-> "KeyError", t |-> 0, active |-> act]
    ELSE [exc |-> "none", t |-> act[k], active |-> act]

\* a slip: a missing entry is passed over (self._active.pop(k, None))
deactivate_missing_ok(act, k) ==
    IF k \notin DOMAIN act
    THEN [exc |-> "none", t |-> 0, active |-> act]
    ELSE [exc |-> "none", t |-> act[k], active |-> dict_del(act, k)]

\* FlatFileTileSet.deactivate up to "del self._active[k]": the exception
\* raised, the local t and _active afterwards
deactivate(act, k) ==
    IF k \notin DOMAIN act
    THEN [exc |-> "KeyError", t |-> 0, active |-> act]
    ELSE [exc |-> "none", t |-> act[k], active |-> dict_del(act, k)]

\* glDeleteTextures([t])
glDeleteTextures(gl, t) == gl \ {t}

---------------------------------------------------------------------------
(* ColormapTiles, the tile layer: what each method returns, and the active
   tiles and GL names afterwards *)

\* a slip: paint drops the active tiles it does not draw
ColormapTiles_paint_drops(act, gl, geom, fast) ==
    [exc |-> "none", ret |-> PyBool(TRUE), active |-> <<>>, gl_textures |-> gl]

\* ColormapTiles.paint(geom, fast)
ColormapTiles_paint(act, gl, geom, fast) ==
    [exc |-> "none", ret |-> PyBool(TRUE), active |-> act, gl_textures |-> gl]

\* ColormapTiles.render(geom)
ColormapTiles_render(act, gl, geom) ==
    [exc |-> "none", ret |-> PyBool(TRUE), active |-> act, gl_textures |-> gl]

\* a slip: purge releases every active tile, whether the view needs it or not
ColormapTiles_purge_all(act, gl, geom) ==
    [exc |-> "none", ret |-> PyBool(act # <<>>), active |-> <<>>,
     gl_textures |-> gl \ {act[k] : k \in DOMAIN act}]

\* ColormapTiles.purge(geom)
ColormapTiles_purge(act, gl, geom) ==
    [exc |-> "none", ret |-> PyBool(FALSE), active |-> act, gl_textures |-> gl]

---------------------------------------------------------------------------
(* Inputs and actions of the tile set *)

TileKeys == (0 .. MaxTileIndex) \X (0 .. MaxTileIndex)
TexNames == 1 .. MaxTex

\* the call before this one, when it was made on the same tile index
Before(k) ==
    IF op # NoCall /\ op.key = k THEN <<op.name, op.exc>> ELSE <<"other", "none">>

Call(name, k, r, freed) ==
    [kind |-> "call", name |-> name, key |-> k, ret |-> r.ret, exc |-> r.exc,
     freed |-> freed, before |-> Before(k)]

\* tileset = FlatFileTileSet(path, element_dtype, shape, zero_point, pixel_rez, tile_shape)
NewFlatFileTileSet ==
    /\ store = NoStore
    /\ pc.at = "idle"
    /\ \E ps \in PixelShapes, zp \in ZeroPoints, pr \in StorePixelRezs, ts \in TileShapes :
        LET r == MercatorTileCalc(ps, zp, pr, ts)
        IN  /\ store' = IF r.exc = "none"
                          THEN [kind |-> "FlatFileTileSet", calc |-> r.self, shape |-> ps]
                          ELSE NoStore
            /\ op' = Call("__init__", <<>>, [ret |-> PyNone, exc |-> r.exc], {})
    /\ active' = <<>>
    /\ UNCHANGED <<gl_textures, pc, calc_vars, widget_vars>>

\* tileset[tileyx]
GetItem(tileyx) ==
    /\ store # NoStore
    /\ pc.at = "idle"
    /\ \E texid \in IF tileyx \in DOMAIN active THEN {0} ELSE TexNames \ gl_textures :
        LET r == getitem(store, active, gl_textures, tileyx, texid)
        IN  /\ active' = r.active
            /\ gl_textures' = r.gl_textures
            /\ op' = Call("__getitem__", tileyx, r, {})
    /\ UNCHANGED <<store, pc, calc_vars, widget_vars>>

\* tileset.activate(tile_yx)
Activate(tile_yx) ==
    /\ store # NoStore
    /\ pc.at = "idle"
    /\ \E texid \in TexNames \ gl_textures :
        LET r == activate(store, active, gl_textures, tile_yx, texid)
        IN  /\ active' = r.active
            /\ gl_textures' = r.gl_textures
            /\ op' = Call("activate", tile_yx, r, {})
    /\ UNCHANGED <<store, pc, calc_vars, widget_vars>>

\* tileset.deactivate(tile_y, tile_x), as far as "del self._active[k]"
Deactivate(k) ==
    /\ store # NoStore
    /\ pc.at = "idle"
    /\ LET r == deactivate(active, k)
       IN  /\ active' = r.active
           /\ op' = Call("deactivate", k, [ret |-> PyNone, exc |-> r.exc], {})
           /\ pc' = IF r.exc = "none"
                    THEN [at |-> "glDeleteTextures", t |-> r.t]
                    ELSE [at |-> "idle"]
    /\ UNCHANGED <<store, gl_textures, calc_vars, widget_vars>>

\* view geometries handed to the layer
Geoms == {box(0, 0, 2, 3), box(0, 0, 4, 6)}

LayerCall(name, r, geom) ==
    [kind |-> "call", name |-> name, key |-> <<>>, ret |-> r.ret, exc |-> r.exc,
     freed |-> {}, before |-> <<"other", "none">>, geom |-> geom]

\* layer.paint(geom, fast)
Paint ==
    /\ store # NoStore
    /\ pc.at = "idle"
    /\ \E geom \in Geoms, fast \in BOOLEAN :
        LET r == ColormapTiles_paint(active, gl_textures, geom, fast)
        IN  /\ active' = r.active
            /\ gl_textures' = r.gl_textures
            /\ op' = LayerCall("paint", r, geom)
    /\ UNCHANGED <<store, pc, calc_vars, widget_vars>>

\* layer.render(geom)
Render ==
    /\ store # NoStore
    /\ pc.at = "idle"
    /\ \E geom \in Geoms :
        LET r == ColormapTiles_render(active, gl_textures, geom)
        IN  /\ active' = r.active
            /\ gl_textures' = r.gl_textures
            /\ op' = LayerCall("render", r, geom)
    /\ UNCHANGED <<store, pc, calc_vars, widget_vars>>

\* layer.purge(geom)
Purge ==
    /\ store # NoStore
    /\ pc.at = "idle"
    /\ \E geom \in Geoms :
        LET r == ColormapTiles_purge(active, gl_textures, geom)
        IN  /\ active' = r.active
            /\ gl_textures' = r.gl_textures
            /\ op' = LayerCall("purge", r, geom)
    /\ UNCHANGED <<store, pc, calc_vars, widget_vars>>

\* the rest of deactivate: glDeleteTextures([t])
DeactivateFree ==
    /\ pc.at = "glDeleteTextures"
    /\ gl_textures' = glDeleteTextures(gl_textures, pc.t)
    /\ op' = [op EXCEPT !.freed = {pc.t}]
    /\ pc' = [at |-> "idle"]
    /\ UNCHANGED <<store, active, calc_vars, widget_vars>>

NextStore ==
    \/ NewFlatFileTileSet
    \/ \E k \in TileKeys : GetItem(k)
    \/ \E k \in TileKeys : Activate(k)
    \/ \E k \in TileKeys : Deactivate(k)
    \/ DeactivateFree
    \/ Paint
    \/ Render
    \/ Purge

SpecStore == Init /\ [][NextStore]_vars

---------------------------------------------------------------------------
(* SIFTMainMapWidget: painting frames and the deferred render pass *)

Range(q) == {q[i] : i \in 1 .. Len(q)}

\* QTimer.singleShot(msec, slot) is a static call: it starts a timer inside
\* the event loop and returns None, so no handle reaches the caller
QTimer_singleShot == PyNone

\* the loop of on_draw over the drawing plan, paint[i] being the truth value
\* of what the i-th layer's paint returned: the layers painted, in order,
\* and the render_candidates
on_draw_loop(plan, paint) ==
    LET F[i \in 0 .. Len(plan)] ==
            IF i = 0
            THEN [painted |-> <<>>, render_candidates |-> <<>>]
            ELSE LET done == F[i - 1]
                 IN  [painted |-> Append(done.painted, plan[i]),
                      render_candidates |->
                          IF paint[i]
                          THEN Append(done.render_candidates, plan[i])
                          ELSE done.render_candidates]
    IN  F[Len(plan)]

\* a slip: the candidates are appended without the membership test
\* (self._deferred_render_layers += render_candidates)
append_candidates_untested(deferred, render_candidates) == deferred \o render_candidates

\* for cand in render_candidates:
\*     if cand not in self._deferred_render_layers: ....append(cand)
append_candidates(deferred, render_candidates) ==
    LET F[i \in 0 .. Len(render_candidates)] ==
            IF i = 0
            THEN deferred
            ELSE LET done == F[i - 1]
                 IN  IF render_candidates[i] \in Range(done)
                     THEN done
                     ELSE Append(done, render_candidates[i])
    IN  F[Len(render_candidates)]

\* a slip: the candidates are queued and no timer is armed for them
on_draw_never_arms(deferred, timer, timers, plan, paint) ==
    LET loop == on_draw_loop(plan, paint)
    IN  [painted |-> loop.painted,
         render_candidates |-> loop.render_candidates,
         deferred_render_layers |-> append_candidates(deferred, loop.render_candidates),
         deferred_render_timer |-> timer,
         qt_timers |-> timers]

\* SIFTMainMapWidget.on_draw: the paint calls made, and the deferred list,
\* the timer attribute and the event loop's timers afterwards.  The stop()
\* branch is taken only with a timer handle in the attribute; a handle is
\* the timer armed last.
on_draw(deferred, timer, timers, plan, paint) ==
    LET loop == on_draw_loop(plan, paint)
        stopped == IF timer # PyNone THEN SubSeq(timers, 1, Len(timers) - 1) ELSE timers
    IN  IF loop.render_candidates # <<>>
        THEN [painted |-> loop.painted,
              render_candidates |-> loop.render_candidates,
              deferred_render_layers |-> append_candidates(deferred, loop.render_candidates),
              deferred_render_timer |-> QTimer_singleShot,
              qt_timers |-> Append(stopped, SingleShotTicks)]
        ELSE [painted |-> loop.painted,
              render_candidates |-> loop.render_candidates,
              deferred_render_layers |-> deferred,
              deferred_render_timer |-> timer,
              qt_timers |-> timers]

\* SIFTMainMapWidget._vueport: the viewport with its sampling, dx and dy
\* kept as the world extent over the pixel extent
vueport(vp, size) ==
    [b |-> vp.b, l |-> vp.l, t |-> vp.t, r |-> vp.r,
     dy |-> <<vp.t - vp.b, size[2]>>, dx |-> <<vp.r - vp.l, size[1]>>]

\* a slip: the pass renders the layers and leaves them pending
render_layers_keeps_pending(layers_arg, deferred, timer, vp) ==
    LET layers == IF layers_arg # <<>> THEN layers_arg ELSE deferred
    IN  [rendered |-> layers, geoms |-> [i \in 1 .. Len(layers) |-> vp],
         purged |-> <<>>, retried |-> <<>>,
         deferred_render_layers |-> deferred,
         deferred_render_timer |-> timer, update |-> layers # <<>>]

\* a slip: render is handed the viewport box without its sampling
\* (self.viewport in place of self._vueport())
render_layers_bare_viewport(layers_arg, deferred, timer, vp) ==
    LET layers == IF layers_arg # <<>> THEN layers_arg ELSE deferred
    IN  IF layers = <<>>
        THEN [rendered |-> <<>>, geoms |-> <<>>, purged |-> <<>>, retried |-> <<>>,
              deferred_render_layers |-> deferred,
              deferred_render_timer |-> timer, update |-> FALSE]
        ELSE [rendered |-> layers,
              geoms |-> [i \in 1 .. Len(layers) |-> box(vp.b, vp.l, vp.t, vp.r)],
              purged |-> <<>>, retried |-> <<>>,
              deferred_render_layers |-> <<>>,
              deferred_render_timer |-> PyNone, update |-> TRUE]

\* a slip: the pass has no early return, so a pass over no layers still
\* resets the attributes and calls update()
render_layers_redraws_when_empty(layers_arg, deferred, timer, vp) ==
    LET layers == IF layers_arg # <<>> THEN layers_arg ELSE deferred
    IN  [rendered |-> layers, geoms |-> [i \in 1 .. Len(layers) |-> vp],
         purged |-> <<>>, retried |-> <<>>,
         deferred_render_layers |-> <<>>,
         deferred_render_timer |-> PyNone, update |-> TRUE]

\* SIFTMainMapWidget.render_layers(layers), layers_arg being <<>> for a
\* call with no argument (None and the empty list are both false), and vp
\* what self._vueport() gives: the layers whose render was called, in
\* order, the geometry each was given, the purge calls and the renders
\* tried again, the deferred list and the timer attribute afterwards, and
\* whether update() was called
render_layers(layers_arg, deferred, timer, vp) ==
    LET layers == IF layers_arg # <<>> THEN layers_arg ELSE deferred
    IN  IF layers = <<>>
        THEN [rendered |-> <<>>, geoms |-> <<>>, purged |-> <<>>, retried |-> <<>>,
              deferred_render_layers |-> deferred,
              deferred_render_timer |-> timer, update |-> FALSE]
        ELSE [rendered |-> layers, geoms |-> [i \in 1 .. Len(layers) |-> vp],
              purged |-> <<>>, retried |-> <<>>,
              deferred_render_layers |-> <<>>,
              deferred_render_timer |-> PyNone, update |-> TRUE]

\* "x is y" of two tuples built apart, as in "(pdy, pdx) is not (None, None)":
\* the left tuple is a new object on every call, so the two are never the
\* same object
is_same_tuple(x, y) == FALSE

\* SIFTMainMapWidget.panViewport(pdy, pdx, wdy, wdx), an argument left out
\* being PyNone: the exception raised, what is returned, the viewport
\* afterwards and whether update() was called.  float(None) raises TypeError.
panViewport(vp, size, pdy, pdx, wdy, wdx) ==
    LET pw == size[1]
        ph == size[2]
        wh == vp.t - vp.b
        ww == vp.r - vp.l
        moved(dy, dx) ==
            LET nvp == box(vp.b + dy, vp.l + dx, vp.t + dy, vp.r + dx)
            IN  [exc |-> "none", ret |-> nvp, viewport |-> nvp, update |-> TRUE]
        raised(exc) == [exc |-> exc, ret |-> PyNone, viewport |-> vp, update |-> FALSE]
    IN  IF ~is_same_tuple(<<pdy, pdx>>, <<PyNone, PyNone>>)
        THEN IF pdy = PyNone \/ pdx = PyNone
             THEN raised("TypeError")
             ELSE moved((pdy.v * wh) \div ph, (pdx.v * ww) \div pw)
        ELSE IF is_same_tuple(<<wdy, wdx>>, <<PyNone, PyNone>>)
        THEN [exc |-> "none", ret |-> vp, viewport |-> vp, update |-> FALSE]
        ELSE IF wdy = PyNone \/ wdx = PyNone
             THEN raised("TypeError")
             ELSE moved(wdy.v, wdx.v)

\* SIFTMainMapWidget.zoomViewport(pdz): the exception raised, the viewport
\* afterwards and whether update() was called
zoomViewport(vp, size, pdz) ==
    LET pw == size[1]
        ph == size[2]
        wh == vp.t - vp.b
        ww == vp.r - vp.l
        wdy == (pdz * wh) \div ph
    IN  IF wh = 0
        THEN [exc |-> "ZeroDivisionError", viewport |-> vp, update |-> FALSE]
        ELSE LET wdx == (ww * wdy) \div wh
             IN  [exc |-> "none", update |-> TRUE,
                  viewport |-> box(vp.b + wdy, vp.l + wdx, vp.t - wdy, vp.r - wdx)]

\* what a handler of an activity gives: its answer, the activity object
\* and the viewport afterwards, whether update() was called, the exception
Handled(answer, self, vp, update, exc) ==
    [ret |-> answer, self |-> self, viewport |-> vp, update |-> update, exc |-> exc]

\* a release handler with which Idling, too, asks to be dismissed
mouseReleaseEvent_dismisses_idling(self, event, vp, size) ==
    Handled(AnswerFalse, self, vp, FALSE, "none")

\* <activity>.mouseReleaseEvent(event)
mouseReleaseEvent(self, event, vp, size) ==
    IF self.cls \in {"UserPanningMap", "UserZoomingMap", "UserZoomingRegion"}
    THEN Handled(AnswerFalse, self, vp, FALSE, "none")
    ELSE Handled(AnswerNone, self, vp, FALSE, "none")

\* <activity>.mouseMoveEvent(event)
mouseMoveEvent(self, event, vp, size) ==
    IF self.cls = "UserPanningMap"
    THEN IF self.lx = Unset
         THEN Handled(AnswerNone, self, vp, FALSE, "AttributeError")
         ELSE LET pdx == self.lx.v - event.x
                  pdy == event.y - self.ly.v
                  r == panViewport(vp, size, PyInt(pdy), PyInt(pdx), PyNone, PyNone)
              IN  IF r.exc # "none"
                  THEN Handled(AnswerNone, self, r.viewport, r.update, r.exc)
                  ELSE Handled(AnswerNone,
                               [self EXCEPT !.lx = PyInt(event.x), !.ly = PyInt(event.y)],
                               r.viewport, r.update, "none")
    ELSE IF self.cls = "UserZoomingMap"
    THEN Handled(AnswerFalse, self, vp, FALSE, "none")
    ELSE Handled(AnswerNone, self, vp, FALSE, "none")

\* a press handler with which UserPanningMap asks to be dismissed on the
\* press that Idling sends its way
mousePressEvent_bounces(self, event, vp, size) ==
    IF self.cls \in {"UserPanningMap", "UserZoomingMap", "UserZoomingRegion"}
    THEN Handled(AnswerFalse, self, vp, FALSE, "none")
    ELSE Handled(AnswerActivity(UserPanningMap), self, vp, FALSE, "none")

\* <activity>.mousePressEvent(event)
mousePressEvent(self, event, vp, size) ==
    IF self.cls = "UserPanningMap"
    THEN Handled(AnswerNone, [self EXCEPT !.lx = PyInt(event.x), !.ly = PyInt(event.y)],
                 vp, FALSE, "none")
    ELSE IF self.cls \in {"UserZoomingMap", "UserZoomingRegion"}
    THEN Handled(AnswerFalse, self, vp, FALSE, "none")
    ELSE Handled(AnswerActivity(UserPanningMap), self, vp, FALSE, "none")

\* <activity>.wheelEvent(event)
wheelEvent(self, event, vp, size) ==
    IF self.cls = "UserZoomingMap"
    THEN LET r == zoomViewport(vp, size, event.delta)
         IN  Handled(AnswerNone, self, r.viewport, r.update, r.exc)
    ELSE IF self.cls = "Idling"
    THEN Handled(AnswerActivity(UserZoomingMap), self, vp, FALSE, "none")
    ELSE Handled(AnswerNone, self, vp, FALSE, "none")

\* the handler on_mouse_<kind> calls on the current activity
handle(kind, self, event, vp, size) ==
    CASE kind = "release" -> mouseReleaseEvent(self, event, vp, size)
      [] kind = "move" -> mouseMoveEvent(self, event, vp, size)
      [] kind = "press" -> mousePressEvent(self, event, vp, size)
      [] kind = "wheel" -> wheelEvent(self, event, vp, size)

\* one turn of the loop of on_mouse_<kind>: newact = self.activity.<handler>(event),
\* then return, pop, or push.  self.activity is _activity_stack[-1].
dispatch_turn(kind, stack, event, vp, size) ==
    IF stack = <<>>
    THEN [exc |-> "IndexError", done |-> TRUE, stack |-> stack, viewport |-> vp,
          update |-> FALSE, answer |-> AnswerNone]
    ELSE LET r == handle(kind, stack[Len(stack)], event, vp, size)
             kept == [stack EXCEPT ![Len(stack)] = r.self]
         IN  IF r.exc # "none"
             THEN [exc |-> r.exc, done |-> TRUE, stack |-> kept, viewport |-> r.viewport,
                   update |-> r.update, answer |-> r.ret]
             ELSE IF r.ret = AnswerNone
             THEN [exc |-> "none", done |-> TRUE, stack |-> kept, viewport |-> r.viewport,
                   update |-> r.update, answer |-> r.ret]
             ELSE IF r.ret = AnswerFalse
             THEN [exc |-> "none", done |-> FALSE, stack |-> SubSeq(kept, 1, Len(kept) - 1),
                   viewport |-> r.viewport, update |-> r.update, answer |-> r.ret]
             ELSE [exc |-> "none", done |-> FALSE, stack |-> Append(kept, r.ret.act),
                   viewport |-> r.viewport, update |-> r.update, answer |-> r.ret]

---------------------------------------------------------------------------
(* Inputs and actions of the widget *)

\* the quotients the viewport arithmetic takes are whole numbers
PanIsExact(pdy, pdx) ==
    /\ pdy # PyNone => (pdy.v * (viewport.t - viewport.b)) % SIZE[2] = 0
    /\ pdx # PyNone => (pdx.v * (viewport.r - viewport.l)) % SIZE[1] = 0

WithinExcursion(vp) ==
    /\ -MaxExcursion <= vp.b /\ vp.t <= MaxExcursion
    /\ -MaxExcursion <= vp.l /\ vp.r <= MaxExcursion

PanLog(pdy, pdx, wdy, wdx, r) ==
    [name |-> "panViewport", pdy |-> pdy, pdx |-> pdx, wdy |-> wdy, wdx |-> wdx,
     before |-> viewport, ret |-> r.ret, exc |-> r.exc, update |-> r.update]

\* widget.panViewport(pdy, pdx, wdy, wdx)
PanViewport(pdy, pdx, wdy, wdx) ==
    /\ dispatch.at = "idle"
    /\ PanIsExact(pdy, pdx)
    /\ LET r == panViewport(viewport, SIZE, pdy, pdx, wdy, wdx)
       IN  /\ WithinExcursion(r.viewport)
           /\ viewport' = r.viewport
           /\ ev' = PanLog(pdy, pdx, wdy, wdx, r)
    /\ UNCHANGED <<calc_vars, store_vars, sched_vars, queued_geom, mouse_vars>>

Layers == {"A", "B"}

\* what drawing_plan(frame) may yield: the layers of one frame, in draw order
Plans == {<<>>, <<"A">>, <<"B">>, <<"A", "B">>, <<"B", "A">>, <<"A", "A">>, <<"A", "B", "A">>}

\* a frame is drawn: on_draw(event)
OnDraw ==
    /\ \E plan \in Plans :
        \E paint \in [1 .. Len(plan) -> BOOLEAN] :
            LET r == on_draw(deferred_render_layers, deferred_render_timer, qt_timers, plan, paint)
            IN  /\ Len(r.qt_timers) <= MaxTimers
                /\ deferred_render_layers' = r.deferred_render_layers
                /\ deferred_render_timer' = r.deferred_render_timer
                /\ qt_timers' = r.qt_timers
                /\ since_dirty' = IF r.render_candidates # <<>> THEN 0 ELSE since_dirty
                /\ queued_geom' = IF r.render_candidates # <<>>
                                  THEN vueport(viewport, SIZE)
                                  ELSE queued_geom
                /\ ev' = [name |-> "on_draw", plan |-> plan, paint |-> paint,
                          painted |-> r.painted, render_candidates |-> r.render_candidates,
                          before |-> deferred_render_layers]
    /\ UNCHANGED <<calc_vars, store_vars, viewport, mouse_vars>>

\* one tick of the clock passes with no timer due
Tick ==
    /\ \A i \in 1 .. Len(qt_timers) : qt_timers[i] > 0
    /\ qt_timers # <<>> \/ since_dirty < SingleShotTicks
    /\ qt_timers' = [i \in 1 .. Len(qt_timers) |-> qt_timers[i] - 1]
    /\ since_dirty' = IF since_dirty < SingleShotTicks THEN since_dirty + 1 ELSE since_dirty
    /\ ev' = [name |-> "tick"]
    /\ UNCHANGED <<deferred_render_layers, deferred_render_timer, calc_vars, store_vars,
                   viewport, queued_geom, mouse_vars>>

\* the oldest single-shot timer is due: the event loop calls render_layers();
\* render[i] is what the i-th layer's render returned
TimerFires ==
    /\ qt_timers # <<>>
    /\ Head(qt_timers) = 0
    /\ \E render \in [1 .. Len(deferred_render_layers) -> BOOLEAN] :
        LET r == render_layers(<<>>, deferred_render_layers, deferred_render_timer,
                               vueport(viewport, SIZE))
        IN  /\ deferred_render_layers' = r.deferred_render_layers
            /\ deferred_render_timer' = r.deferred_render_timer
            /\ ev' = [name |-> "render_layers", layers |-> <<>>,
                      before |-> deferred_render_layers, timer |-> deferred_render_timer,
                      rendered |-> r.rendered, render |-> render,
                      purged |-> r.purged, retried |-> r.retried,
                      update |-> r.update, since_dirty |-> since_dirty,
                      geoms |-> r.geoms, queued_geom |-> queued_geom]
    /\ qt_timers' = Tail(qt_timers)
    /\ UNCHANGED <<since_dirty, calc_vars, store_vars, viewport, queued_geom, mouse_vars>>

\* the lists of layers render_layers is called with by name
ExplicitLayers == {<<"A">>, <<"B">>, <<"A", "B">>}

\* widget.render_layers(layers) is called with a list of layers; the timers
\* that are armed stay armed
RenderLayers(layers) ==
    /\ \E render \in [1 .. Len(layers) -> BOOLEAN] :
        LET r == render_layers(layers, deferred_render_layers, deferred_render_timer,
                               vueport(viewport, SIZE))
        IN  /\ deferred_render_layers' = r.deferred_render_layers
            /\ deferred_render_timer' = r.deferred_render_timer
            /\ ev' = [name |-> "render_layers", layers |-> layers,
                      before |-> deferred_render_layers, timer |-> deferred_render_timer,
                      rendered |-> r.rendered, render |-> render,
                      purged |-> r.purged, retried |-> r.retried,
                      update |-> r.update, since_dirty |-> since_dirty,
                      geoms |-> r.geoms, queued_geom |-> queued_geom]
    /\ UNCHANGED <<qt_timers, since_dirty, calc_vars, store_vars, viewport, queued_geom,
                   mouse_vars>>

NextWidget ==
    \/ OnDraw
    \/ Tick
    \/ TimerFires
    \/ \E pdy \in {PyInt(-1), PyInt(1)} : PanViewport(pdy, PyInt(0), PyNone, PyNone)

SpecWidget == Init /\ [][NextWidget]_vars

\* the widget when render_layers is also called by name with a list of layers
NextWidgetApi ==
    \/ OnDraw
    \/ Tick
    \/ TimerFires
    \/ \E layers \in ExplicitLayers : RenderLayers(layers)

SpecWidgetApi == Init /\ [][NextWidgetApi]_vars

---------------------------------------------------------------------------
(* Inputs and actions of the mouse *)

MouseEvents ==
    [kind : {"press", "move", "release"}, x : 0 .. MaxMouse, y : 0 .. MaxMouse, delta : {0}]
        \cup [kind : {"wheel"}, x : {0}, y : {0}, delta : {1, -2}]

ZoomIsExact(pdz) ==
    LET wh == viewport.t - viewport.b
        ww == viewport.r - viewport.l
    IN  /\ (pdz * wh) % SIZE[2] = 0
        /\ wh # 0 => (ww * ((pdz * wh) \div SIZE[2])) % wh = 0

\* the event moves the viewport by whole numbers and within the excursion
EventIsExact(event) ==
    LET top == activity_stack[Len(activity_stack)]
    IN  /\ (event.kind = "move" /\ top.cls = "UserPanningMap" /\ top.lx # Unset) =>
            /\ PanIsExact(PyInt(event.y - top.ly.v), PyInt(top.lx.v - event.x))
            /\ WithinExcursion(mouseMoveEvent(top, event, viewport, SIZE).viewport)
        /\ (event.kind = "wheel" /\ top.cls \in {"Idling", "UserZoomingMap"}) =>
            /\ ZoomIsExact(event.delta)
            /\ WithinExcursion(zoomViewport(viewport, SIZE, event.delta).viewport)

\* on_mouse_press / on_mouse_move / on_mouse_release / on_mouse_wheel is
\* called with the event
OnMouse(event) ==
    /\ dispatch.at = "idle"
    /\ activity_stack # <<>>
    /\ EventIsExact(event)
    /\ dispatch' = [at |-> "loop", event |-> event, turns |-> 0, entry |-> activity_stack]
    /\ ev' = [name |-> "on_mouse", kind |-> event.kind]
    /\ UNCHANGED <<calc_vars, store_vars, sched_vars, viewport, queued_geom, activity_stack>>

\* one turn of the handler's loop
DispatchTurn ==
    /\ dispatch.at = "loop"
    /\ dispatch.turns < MaxTurns
    /\ LET r == dispatch_turn(dispatch.event.kind, activity_stack, dispatch.event, viewport, SIZE)
       IN  /\ activity_stack' = r.stack
           /\ viewport' = r.viewport
           /\ dispatch' = IF r.done
                           THEN [at |-> "idle"]
                           ELSE [dispatch EXCEPT !.turns = @ + 1]
           /\ ev' = [name |-> "dispatch", kind |-> dispatch.event.kind, answer |-> r.answer,
                     entry |-> dispatch.entry, before |-> activity_stack,
                     update |-> r.update, exc |-> r.exc, turns |-> dispatch.turns + 1]
    /\ UNCHANGED <<calc_vars, store_vars, sched_vars, queued_geom>>

\* the arguments panViewport is called with: pixels, world coordinates, or neither
PixelArgs == {PyNone, PyInt(1)}
WorldArgs == {PyNone, PyInt(2)}

NextMouse ==
    \/ \E event \in MouseEvents : OnMouse(event)
    \/ DispatchTurn
    \/ \E pdy \in PixelArgs, pdx \in PixelArgs, wdy \in WorldArgs, wdx \in WorldArgs :
        PanViewport(pdy, pdx, wdy, wdx)

SpecMouse == Init /\ [][NextMouse]_vars

\* the handler runs on: a turn of its loop that can be taken is taken
SpecMouseFair == SpecMouse /\ WF_vars(DispatchTurn)

\* the frames and the timers alone: panning changes none of the variables
\* the deferred render pass reads or writes but the viewport
NextSchedule == OnDraw \/ Tick \/ TimerFires

\* the event loop keeps running: time passes and a timer that is due fires
SpecWidgetFair ==
    Init /\ [][NextSchedule]_vars /\ WF_vars(Tick) /\ WF_vars(TimerFires)

---------------------------------------------------------------------------
(* Properties of the calculator *)

\* the world box of the pixel footprint of tile (iy, ix)
TileFootprint(C, iy, ix) ==
    LET E == C.extents_box
        sy == C.tile_shape[1] * C.pixel_rez.dy
        sx == C.tile_shape[2] * C.pixel_rez.dx
    IN  box(E.b + iy * sy, E.l + ix * sx, E.b + (iy + 1) * sy, E.l + (ix + 1) * sx)

\* V1 lies within V2 (boxes of one coordinate space)
Within(V1, V2) == V2.b <= V1.b /\ V2.l <= V1.l /\ V1.t <= V2.t /\ V1.r <= V2.r

\* the world boxes of the input grid that lie within V
SubBoxes(V) ==
    {box(b, l, t, r) :
        <<b, t>> \in {p \in (WorldYs \X WorldYs) :
                        V.b <= p[1] /\ p[1] <= p[2] /\ p[2] <= V.t},
        <<l, r>> \in {p \in (WorldXs \X WorldXs) :
                        V.l <= p[1] /\ p[1] <= p[2] /\ p[2] <= V.r}}

\* C1: whatever the calculator, the visible box and the margin, visible_tiles
\* returns a tile box within the available tiles on both axes:
\* 0 <= b <= t <= ny and 0 <= l <= r <= nx (never a negative index or extent).
C1_TileBoxWithinAvailable ==
    vt # NoCall =>
        LET T == vt.ret[2]
            ny == calc.tiles_avail[1]
            nx == calc.tiles_avail[2]
        IN  /\ 0 <= T.b /\ T.b <= T.t /\ T.t <= ny
            /\ 0 <= T.l /\ T.l <= T.r /\ T.r <= nx

\* C2: for a visible box inside the raster's extents and a zero margin, the
\* returned tile range covers the whole pixel range of the box: the tiles
\* start at or below pv.b (pv.l) and end at or above pv.t (pv.r).
C2_TileBoxCoversPixels ==
    (/\ vt # NoCall
     /\ vt.X = ZeroMargin
     /\ Within(vt.V, calc.extents_box)
     /\ vt.V.b < vt.V.t /\ vt.V.l < vt.V.r) =>
        LET T == vt.ret[2]
            pv == pixel_view(calc, vt.V)
            sy == calc.tile_shape[1] * calc.pixel_rez.dy
            sx == calc.tile_shape[2] * calc.pixel_rez.dx
        IN  /\ T.b * sy <= pv.b /\ pv.t <= T.t * sy
            /\ T.l * sx <= pv.l /\ pv.r <= T.r * sx

\* C3: visible_tiles is monotonic: the tile box returned for a box V2 contains
\* the tile box returned (same calculator, same margin) for every box V1
\* within V2.
C3_VisibleTilesMonotonic ==
    vt # NoCall =>
        \A V1 \in SubBoxes(vt.V) :
            Within(visible_tiles(calc, V1, vt.X)[2], vt.ret[2])

\* C4: a calculator constructed from a pixel_shape that is an exact multiple
\* of tile_shape has exactly pixel_shape / tile_shape tiles on each axis.
C4_TilesAvailExact ==
    (/\ calc # NoCalc
     /\ calc.pixel_shape[1] % calc.tile_shape[1] = 0
     /\ calc.pixel_shape[2] % calc.tile_shape[2] = 0) =>
        /\ calc.tiles_avail[1] * calc.tile_shape[1] = calc.pixel_shape[1]
        /\ calc.tiles_avail[2] * calc.tile_shape[2] = calc.pixel_shape[2]

C4_Witness ==
    /\ calc # NoCalc
    /\ calc.pixel_shape = <<2, 6>>
    /\ calc.tile_shape = <<2, 3>>
    /\ calc.tiles_avail = <<1, 2>>

\* the parameters a calculator may be built from
ValidParameters(pixel_shape, pixel_rez, tile_shape) ==
    /\ pixel_shape[1] % tile_shape[1] = 0
    /\ pixel_shape[2] % tile_shape[2] = 0
    /\ pixel_rez.dy > 0
    /\ pixel_rez.dx > 0

\* C5: a constructor call whose pixel_shape is not a multiple of tile_shape,
\* or whose resolution is not strictly positive, raises and builds nothing;
\* every calculator that exists, and every one visible_tiles was called on,
\* has valid parameters.
C5_ConstructionFailsFast ==
    /\ (ctor # NoCall /\ ~ValidParameters(ctor.pixel_shape, ctor.pixel_rez, ctor.tile_shape)) =>
            (ctor.exc = "AssertionError" /\ calc = NoCalc)
    /\ calc # NoCalc =>
            ValidParameters(calc.pixel_shape, calc.pixel_rez, calc.tile_shape)
    /\ vt # NoCall =>
            (calc # NoCalc /\ ValidParameters(calc.pixel_shape, calc.pixel_rez, calc.tile_shape))

C5_Witness ==
    /\ ctor # NoCall
    /\ ctor.pixel_shape = <<4, 4>>
    /\ ctor.tile_shape = <<2, 3>>
    /\ ctor.pixel_rez = rez(1, 1)
    /\ ctor.exc = "AssertionError"
    /\ calc = NoCalc

\* C6: with a zero margin, a visible box that is exactly the footprint of one
\* tile (iy, ix) returns the box (iy, ix)-(iy+1, ix+1); for the (512, 1024)
\* raster in (256, 512) tiles, the bottom-left tile's footprint returns
\* b=0, l=0, t=1, r=1.
C6_OneTileFootprint ==
    (vt # NoCall /\ vt.X = ZeroMargin) =>
        /\ \A iy \in 0 .. (calc.tiles_avail[1] - 1), ix \in 0 .. (calc.tiles_avail[2] - 1) :
                vt.V = TileFootprint(calc, iy, ix) =>
                    vt.ret[2] = box(iy, ix, iy + 1, ix + 1)
        /\ (/\ calc.pixel_shape = <<512, 1024>>
            /\ calc.tile_shape = <<256, 512>>
            /\ vt.V = TileFootprint(calc, 0, 0)) =>
                    vt.ret[2] = box(0, 0, 1, 1)

C6_Witness ==
    /\ vt # NoCall
    /\ vt.X = ZeroMargin
    /\ calc.pixel_shape = <<512, 1024>>
    /\ calc.tile_shape = <<256, 512>>
    /\ vt.V = box(0, 0, 256, 512)
    /\ vt.V = TileFootprint(calc, 0, 0)
    /\ vt.ret[2] = box(0, 0, 1, 1)

---------------------------------------------------------------------------
(* Properties of the tile set *)

\* the step is the call tileset[k] made right after a call `name` on the
\* same tile index k returned normally
GetFollows(name) ==
    /\ pc.at = "idle"
    /\ op # NoCall
    /\ op.name = name
    /\ op.exc = "none"
    /\ op'.name = "__getitem__"
    /\ op'.key = op.key

\* C7: get is idempotent: two calls tileset[k] in a row (no deactivate in
\* between) return the identical texture handle, the first, cache-miss call
\* included, and the second allocates no texture.
C7_GetIdempotent ==
    [][GetFollows("__getitem__") =>
            /\ op'.exc = "none"
            /\ op'.ret = op.ret
            /\ gl_textures' = gl_textures]_vars

\* C8 as claimed: after deactivate of an active tile the tile is not in the
\* active set, and the next get of it allocates and registers a texture
\* handle that was not in use and that differs from the handle just freed.
C8_FreshHandleNeverTheFreedOne ==
    [][GetFollows("deactivate") =>
            /\ op.key \notin DOMAIN active
            /\ op'.exc = "none"
            /\ op.key \in DOMAIN active'
            /\ active'[op.key] \notin gl_textures
            /\ active'[op.key] \in gl_textures'
            /\ active'[op.key] \notin op.freed]_vars

\* a deactivate that has run to its end without raising
DeactivateDone ==
    /\ pc.at = "idle"
    /\ op # NoCall
    /\ op.name = "deactivate"
    /\ op.exc = "none"

\* C8, amended: after deactivate of an active tile the tile is not in the
\* active set and its texture is freed, and the next get of it performs a
\* fresh activation: it allocates a texture name that was not in use at the
\* call and registers it for the tile (the name may be the one just freed).
C8_FreshActivation ==
    /\ [](DeactivateDone =>
            /\ op.key \notin DOMAIN active
            /\ op.freed # {}
            /\ op.freed \cap gl_textures = {})
    /\ [][GetFollows("deactivate") =>
            /\ op'.exc = "none"
            /\ op.key \in DOMAIN active'
            /\ active'[op.key] \notin gl_textures
            /\ active'[op.key] \in gl_textures'
            /\ gl_textures' = gl_textures \cup {active'[op.key]}]_vars

C8_Witness ==
    /\ pc.at = "idle"
    /\ op # NoCall
    /\ op.name = "__getitem__"
    /\ op.before = <<"deactivate", "none">>
    /\ op.exc = "none"
    /\ op.key \in DOMAIN active
    /\ active[op.key] \in gl_textures

\* C9: deactivate of a tile index that is not active raises KeyError, frees
\* no texture and leaves the active set unchanged.
C9_DeactivateInactiveRaises ==
    [][(/\ pc.at = "idle"
        /\ op'.name = "deactivate"
        /\ op'.key \notin DOMAIN active) =>
            /\ op'.exc = "KeyError"
            /\ op'.freed = {}
            /\ pc'.at = "idle"
            /\ active' = active
            /\ gl_textures' = gl_textures]_vars

C9_Witness ==
    /\ pc.at = "idle"
    /\ op # NoCall
    /\ op.name = "deactivate"
    /\ op.exc = "KeyError"
    /\ op.key \notin DOMAIN active
    /\ DOMAIN active # {}
    /\ gl_textures # {}

\* C10: in deactivate of an active tile the texture is released before the
\* entry is removed: in no state of the method is the tile's entry gone
\* from the active set while its texture is still allocated.
C10_ReleaseBeforeRemove ==
    pc.at = "glDeleteTextures" =>
        ~(op.key \notin DOMAIN active /\ pc.t \in gl_textures)

\* the slice w lies within an array of the tile set's shape
InsideArray(S, w) ==
    /\ 0 <= w.ys /\ w.ye <= S.shape[1]
    /\ 0 <= w.xs /\ w.xe <= S.shape[2]

\* the last call was a get or an activation
Activation ==
    /\ pc.at = "idle"
    /\ op # NoCall
    /\ op.name \in {"__getitem__", "activate"}

\* C11: a get or an activation of a tile whose pixel window lies partly or
\* wholly outside the source array fails with an error, and the tile has no
\* entry in the active set afterwards.
C11_OutsideArrayFails ==
    (Activation /\ ~InsideArray(store, tile_pixels(store.calc, op.key[1], op.key[2])))
        => (op.exc # "none" /\ op.key \notin DOMAIN active)

---------------------------------------------------------------------------
(* Properties of the widget *)

\* the last handler was on_draw
Drawn == ev.name = "on_draw"

\* the last handler was render_layers
Fired == ev.name = "render_layers"

\* C12: in every frame draw paint is called on every layer of the drawing
\* plan in draw order, and a layer is in the pending set afterwards exactly
\* when it was pending before or one of its paint calls returned false; a
\* layer whose paint returned true is not queued.
C12_QueuedWhenPaintFalse ==
    Drawn =>
        /\ ev.painted = ev.plan
        /\ \A layer \in Layers :
            layer \in Range(deferred_render_layers)
                <=> \/ layer \in Range(ev.before)
                    \/ \E i \in 1 .. Len(ev.plan) : ev.plan[i] = layer /\ ~ev.paint[i]

NoDuplicates(q) == \A i, j \in 1 .. Len(q) : q[i] = q[j] => i = j

\* the number of render calls the last pass made on the layer
RenderCalls(layer) == Cardinality({i \in 1 .. Len(ev.rendered) : ev.rendered[i] = layer})

\* C13: the pending set never holds the same layer twice, whatever frames
\* and timer fires came before, and a render pass calls render exactly once
\* on each layer that was reported dirty before it, however often it was
\* reported.
C13_PendingHasNoDuplicates ==
    /\ NoDuplicates(deferred_render_layers)
    /\ Fired => \A layer \in Range(ev.before) : RenderCalls(layer) = 1

\* a frame reported A, B, A with nothing pending, and A and B are pending once each
C13_Witness ==
    /\ Drawn
    /\ ev.before = <<>>
    /\ ev.render_candidates = <<"A", "B", "A">>
    /\ deferred_render_layers = <<"A", "B">>

\* C14: the render timer is debounced: at most one deferred-render timer is
\* outstanding at any time, and a render pass runs only when a full timer
\* interval has passed since the most recent frame that queued a layer.
C14_Debounced ==
    /\ Len(qt_timers) <= 1
    /\ (Fired /\ ev.rendered # <<>>) => ev.since_dirty = SingleShotTicks

\* C15: when the timer fires with layers pending, render is called exactly
\* once on every pending layer and on no other, and afterwards the pending
\* set is empty and no timer is recorded as armed.
C15_PassRendersAndClears ==
    (Fired /\ ev.before # <<>>) =>
        /\ \A layer \in Layers :
            RenderCalls(layer) = IF layer \in Range(ev.before) THEN 1 ELSE 0
        /\ deferred_render_layers = <<>>
        /\ deferred_render_timer = PyNone

\* the timer fired with A and B pending
C15_Witness ==
    /\ Fired
    /\ Range(ev.before) = {"A", "B"}
    /\ Len(ev.rendered) = 2
    /\ deferred_render_layers = <<>>

\* the layers whose render returned false in the last pass
FailedRenders == {ev.rendered[i] : i \in {j \in 1 .. Len(ev.rendered) : ~ev.render[j]}}

\* C16: when a render call of a pass returns false, purge is called on
\* every layer of the layer stack and the render of each failed layer is
\* tried again exactly once.
C16_PurgeAndRetry ==
    (Fired /\ FailedRenders # {}) =>
        /\ Range(ev.purged) = Layers
        /\ \A layer \in FailedRenders :
            Cardinality({i \in 1 .. Len(ev.retried) : ev.retried[i] = layer}) = 1

---------------------------------------------------------------------------
(* Properties of the tile layer *)

\* C18: paint never changes the active tile set: a paint call leaves the
\* active tiles and the allocated textures as they were, so they are
\* unchanged after any number of paint calls.
C18_PaintKeepsActiveTiles ==
    [][op'.name = "paint" => (active' = active /\ gl_textures' = gl_textures)]_vars

\* paint has run, and returned true, over a tile set with an active tile
C18_Witness ==
    /\ op # NoCall
    /\ op.name = "paint"
    /\ op.ret = PyBool(TRUE)
    /\ DOMAIN active # {}
    /\ gl_textures # {}

\* the tile index lies inside the box of tile indices
TileInBox(k, b) == b.b <= k[1] /\ k[1] < b.t /\ b.l <= k[2] /\ k[2] < b.r

\* the box of tiles required for the view geometry: visible_tiles, no margin
RequiredBox(geom) == visible_tiles(store.calc, geom, ZeroMargin)[2]

\* C19: purge never evicts a tile whose index lies inside the required
\* tile-index box of the view it is given, and it returns true exactly when
\* it released at least one GPU resource.
C19_PurgeKeepsRequiredTiles ==
    [][op'.name = "purge" =>
        /\ \A k \in DOMAIN active :
            TileInBox(k, RequiredBox(op'.geom)) =>
                (k \in DOMAIN active' /\ active'[k] = active[k] /\ active[k] \in gl_textures')
        /\ (op'.ret = PyBool(TRUE)) <=> (gl_textures \ gl_textures' # {})]_vars

\* purge has run over a tile set with an active tile the view requires
C19_Witness ==
    /\ op # NoCall
    /\ op.name = "purge"
    /\ \E k \in DOMAIN active : TileInBox(k, RequiredBox(op.geom))

---------------------------------------------------------------------------
(* The pixel window of an activation *)

\* the tile index lies inside tiles_avail
Available(C, k) == k[1] < C.tiles_avail[1] /\ k[2] < C.tiles_avail[2]

\* C20: the pixel window read when tile (iy, ix) is activated is rows
\* [iy*th, (iy+1)*th) and columns [ix*tw, (ix+1)*tw), the window tile_pixels
\* computes, whatever the zero point; and the activation of a tile index
\* inside tiles_avail raises no bounds failure.
C20_WindowIsTilePixels ==
    Activation =>
        /\ activate_slice(store.calc, op.key) = tile_pixels(store.calc, op.key[1], op.key[2])
        /\ Available(store.calc, op.key) => op.exc = "none"

---------------------------------------------------------------------------
(* Properties of the widget, continued *)

\* C21: in no state is a layer pending with no deferred-render timer
\* outstanding, and, the timers firing when due, every layer that enters
\* the pending set is eventually passed to render.
C21_PendingIsRendered ==
    /\ [](deferred_render_layers # <<>> => qt_timers # <<>>)
    /\ \A layer \in Layers :
        (layer \in Range(deferred_render_layers))
            ~> (Fired /\ layer \in Range(ev.rendered))

\* B is pending behind A, and a timer is running for them
C21_Witness ==
    /\ deferred_render_layers = <<"A", "B">>
    /\ qt_timers # <<>>
    /\ Head(qt_timers) > 0

\* C22: the render pass gives every layer the geometry of the viewport as
\* it is when the timer fires, the same for all layers of the pass, also
\* when the viewport has moved since the frame that queued the layers.
C22_LastGeometryWins ==
    (Fired /\ ev.rendered # <<>>) =>
        /\ Len(ev.geoms) = Len(ev.rendered)
        /\ \A i \in 1 .. Len(ev.geoms) : ev.geoms[i] = vueport(viewport, SIZE)

\* a pass over A and B after the viewport moved away from the geometry of
\* the frame that queued them
C22_Witness ==
    /\ Fired
    /\ Len(ev.rendered) = 2
    /\ ev.queued_geom # NoCall
    /\ ev.queued_geom # vueport(viewport, SIZE)
    /\ ev.geoms[1] = vueport(viewport, SIZE)

---------------------------------------------------------------------------
(* The margin of visible_tiles *)

\* the tile range of the view before margin and clamping
UnclampedTiles(C, V) ==
    LET Z == C.pixel_rez
        pv == pixel_view(C, V)
        th == C.tile_shape[1]
        tw == C.tile_shape[2]
        tiy0 == floor(pv.b, Z.dy * th)
        tix0 == floor(pv.l, Z.dx * tw)
    IN  box(tiy0, tix0, tiy0 + ceil(pv.t - pv.b, Z.dy * th), tix0 + ceil(pv.r - pv.l, Z.dx * tw))

Widened(B, m) == box(B.b - m.b, B.l - m.l, B.t + m.t, B.r + m.r)

ClampIndex(i, n) == IF i < 0 THEN 0 ELSE IF i > n THEN n ELSE i

\* every edge clamped to the available tiles
Clamped(B, avail) ==
    box(ClampIndex(B.b, avail[1]), ClampIndex(B.l, avail[2]),
        ClampIndex(B.t, avail[1]), ClampIndex(B.r, avail[2]))

\* the result of the last call contains the result for the same view and
\* no margin
MarginNeverShrinks ==
    vt # NoCall => Within(visible_tiles(calc, vt.V, ZeroMargin)[2], vt.ret[2])

\* C23: the margin is added to each edge before clamping: visible_tiles(V, m)
\* is the unclamped range of the view widened by m.b, m.l, m.t, m.r tiles
\* and then clamped to the available tiles, and it contains
\* visible_tiles(V, 0).
C23_MarginBeforeClamp ==
    /\ vt # NoCall =>
        vt.ret[2] = Clamped(Widened(UnclampedTiles(calc, vt.V), vt.X), calc.tiles_avail)
    /\ MarginNeverShrinks

---------------------------------------------------------------------------
(* Properties of the viewport and the mouse *)

\* the last handler was panViewport
Panned == ev.name = "panViewport"

\* C24: panViewport called with world displacements (wdy, wdx) and no pixel
\* displacements shifts all four edges of the viewport by exactly
\* (wdy, wdx), so width and height are kept, and returns the new viewport;
\* called with no displacement at all it returns the viewport unchanged.
C24_PanByWorldCoordinates ==
    (Panned /\ ev.pdy = PyNone /\ ev.pdx = PyNone) =>
        /\ (ev.wdy # PyNone /\ ev.wdx # PyNone) =>
            /\ ev.exc = "none"
            /\ viewport = box(ev.before.b + ev.wdy.v, ev.before.l + ev.wdx.v,
                              ev.before.t + ev.wdy.v, ev.before.r + ev.wdx.v)
            /\ ev.ret = viewport
        /\ (ev.wdy = PyNone /\ ev.wdx = PyNone) =>
            /\ ev.exc = "none"
            /\ viewport = ev.before
            /\ ev.ret = ev.before

\* C25: panViewport queues no screen update: a call changes the viewport
\* and requests no redraw.
C25_PanRequestsNoRedraw ==
    Panned => ~ev.update

\* a handler on_mouse_<kind> has returned
Dispatched == ev.name = "dispatch" /\ dispatch.at = "idle"

\* the activity that was current when the handler was entered
EntryActivity == ev.entry[Len(ev.entry)]

\* C26: whatever mouse events are dispatched, the activity stack is never
\* empty, Idling is at its bottom and it holds at most 2 activities; a
\* release while panning leaves Idling as the current activity.
C26_StackKeepsIdling ==
    /\ activity_stack # <<>>
    /\ activity_stack[1] = Idling
    /\ Len(activity_stack) <= 2
    /\ (Dispatched /\ ev.kind = "release" /\ EntryActivity.cls = "UserPanningMap") =>
        activity_stack = <<Idling>>

\* a release was dispatched while panning
C26_Witness ==
    /\ Dispatched /\ ev.kind = "release" /\ ev.exc = "none"
    /\ EntryActivity.cls = "UserPanningMap"
    /\ activity_stack = <<Idling>>

\* C27: every dispatch loop ends: it takes fewer than MaxTurns turns, and
\* it ends on an activity that answers None, without an exception.
C27_DispatchTerminates ==
    /\ dispatch.at = "loop" => dispatch.turns < MaxTurns
    /\ Dispatched => (ev.answer = AnswerNone /\ ev.exc = "none")

\* the same under the fair specification: a loop that was entered is left
C27_LoopIsLeft == (dispatch.at = "loop") ~> (dispatch.at = "idle")

\* a press while zooming: UserZoomingMap is dismissed, Idling sends the
\* press to UserPanningMap, which answers None on the third turn
C27_Witness ==
    /\ Dispatched /\ ev.kind = "press" /\ ev.turns = 3
    /\ EntryActivity.cls = "UserZoomingMap"
    /\ activity_stack[Len(activity_stack)].cls = "UserPanningMap"

---------------------------------------------------------------------------
(* Properties of the tile set's textures *)

\* the texture names held by the entries of _active
Held == {active[k] : k \in DOMAIN active}

\* C28: between the calls on a tile set, every texture name that was
\* generated and not deleted is the value of exactly one entry of _active,
\* and no name is the value of two entries: failed activations and
\* activations of an active tile leave no name behind.
C28_NoTextureLeak ==
    pc.at = "idle" =>
        /\ gl_textures = Held
        /\ \A j, k \in DOMAIN active : active[j] = active[k] => j = k

---------------------------------------------------------------------------
(* Properties of the render pass and its pending layers *)

\* C29: a layer that a call of render_layers takes out of the pending set
\* had its render called in that pass, also when the call names a list of
\* layers that leaves some pending layers out.
C29_NoPendingLayerDropped ==
    Fired =>
        \A layer \in Range(ev.before) \ Range(deferred_render_layers) :
            layer \in Range(ev.rendered)

\* C30: a timer that fires with nothing pending calls render on no layer,
\* calls update() not at all, and leaves the pending set and the recorded
\* timer as they were.
C30_EmptyPassIsNoOp ==
    (Fired /\ ev.before = <<>>) =>
        /\ ev.rendered = <<>>
        /\ ~ev.update
        /\ deferred_render_layers = ev.before
        /\ deferred_render_timer = ev.timer

\* a second timer fired after the first one's pass had emptied the pending set
C30_Witness ==
    /\ Fired
    /\ ev.before = <<>>
    /\ ev.rendered = <<>>
    /\ deferred_render_layers = <<>>

====
